---------------------------- MODULE Spec2Model ----------------------------
(***************************************************************************)
(* Model of the three Netlify function handlers of clara-apps:             *)
(*   netlify/functions/api.js         (health, auth/login, auth/signup)     *)
(*   netlify/functions/flow-proxy.js  (n8n webhook proxy)                   *)
(*   the login-only handler (unnamed part_000)                              *)
(*                                                                         *)
(* A text is a sequence of symbols.  A symbol is a one-character string    *)
(* for every character the parsers look at (quotes, braces, digits, "=",   *)
(* "&", "%", space ...) or an opaque run of ordinary letters (a word of a  *)
(* message, a URL, a key) that no parser splits.                           *)
(***************************************************************************)
EXTENDS Integers, Sequences, FiniteSets, TLC

\* ------------------------------------------------------------------ bounds
MaxLen == 3
MaxFields == 2
MaxCalls == 3

\* --------------------------------------------------------------- constants
TIMEOUT_MS == 15000

DQ == "\""
BS == "\\"
SQ == "'"
BOM == "BOM"

Digits == {"0", "1", "2", "3", "4", "5", "6", "7", "8", "9"}
DigitSeq == <<"0", "1", "2", "3", "4", "5", "6", "7", "8", "9">>

\* the whitespace JSON.parse skips (only the space occurs in the inputs)
JsonWs == {" "}
\* the whitespace String.prototype.trim strips; U+FEFF is part of it
TrimWs == {" ", BOM}

\* --------------------------------------------------------- JSON values
JNull == [t |-> "null"]
JBool(b) == [t |-> "bool", v |-> b]
JNum(n) == [t |-> "num", v |-> n]
JStr(s) == [t |-> "str", v |-> s]
JArr(xs) == [t |-> "arr", v |-> xs]
\* an object is the sequence of its own properties <<key, value>> in
\* enumeration order, keys pairwise different
JObj(ps) == [t |-> "obj", v |-> ps]
EmptyObj == JObj(<<>>)

DigitVal(d) == CHOOSE i \in 0..9 : DigitSeq[i + 1] = d

RECURSIVE NumVal(_)
NumVal(ds) ==
  IF ds = <<>> THEN 0
  ELSE 10 * NumVal(SubSeq(ds, 1, Len(ds) - 1)) + DigitVal(ds[Len(ds)])

RECURSIVE NumText(_)
NumText(n) ==
  IF n < 10 THEN <<DigitSeq[n + 1]>>
  ELSE Append(NumText(n \div 10), DigitSeq[(n % 10) + 1])

\* a canonical array index ("0", "7", "12"): such keys enumerate first,
\* in ascending numeric order
IsIndexKey(k) ==
  /\ k # <<>>
  /\ \A i \in 1..Len(k) : k[i] \in Digits
  /\ (k[1] = "0" => Len(k) = 1)

HasKey(ps, k) == \E i \in 1..Len(ps) : ps[i][1] = k

KeyPos(ps, k) == CHOOSE i \in 1..Len(ps) : ps[i][1] = k

GetKey(ps, k) == ps[KeyPos(ps, k)][2]

\* the position a new own property takes in the enumeration order
InsertPos(ps, k) ==
  IF IsIndexKey(k)
    THEN Cardinality({i \in 1..Len(ps) :
                        IsIndexKey(ps[i][1]) /\ NumVal(ps[i][1]) < NumVal(k)}) + 1
    ELSE Len(ps) + 1

\* define (or overwrite) the own property k
DefineOwn(ps, k, val) ==
  IF HasKey(ps, k)
    THEN [ps EXCEPT ![KeyPos(ps, k)] = <<k, val>>]
    ELSE LET p == InsertPos(ps, k)
         IN SubSeq(ps, 1, p - 1) \o <<<<k, val>>>> \o SubSeq(ps, p, Len(ps))

\* ------------------------------------------------------- JSON.stringify
RECURSIVE EscapeText(_)
EscapeText(s) ==
  IF s = <<>> THEN <<>>
  ELSE (IF Head(s) \in {DQ, BS} THEN <<BS, Head(s)>> ELSE <<Head(s)>>)
         \o EscapeText(Tail(s))

QuoteText(s) == <<DQ>> \o EscapeText(s) \o <<DQ>>

RECURSIVE Stringify(_), StringifyElems(_), StringifyMembers(_)
Stringify(x) ==
  CASE x.t = "null" -> <<"n", "u", "l", "l">>
    [] x.t = "bool" -> IF x.v THEN <<"t", "r", "u", "e">>
                              ELSE <<"f", "a", "l", "s", "e">>
    [] x.t = "num" -> NumText(x.v)
    [] x.t = "str" -> QuoteText(x.v)
    [] x.t = "arr" -> <<"[">> \o StringifyElems(x.v) \o <<"]">>
    [] x.t = "obj" -> <<"{">> \o StringifyMembers(x.v) \o <<"}">>

StringifyElems(xs) ==
  IF xs = <<>> THEN <<>>
  ELSE Stringify(Head(xs))
         \o (IF Len(xs) > 1 THEN <<",">> ELSE <<>>)
         \o StringifyElems(Tail(xs))

StringifyMembers(ps) ==
  IF ps = <<>> THEN <<>>
  ELSE QuoteText(Head(ps)[1]) \o <<":">> \o Stringify(Head(ps)[2])
         \o (IF Len(ps) > 1 THEN <<",">> ELSE <<>>)
         \o StringifyMembers(Tail(ps))

\* ----------------------------------------------------------- JSON.parse
ParseFail == [ok |-> FALSE]
Parsed(val, nxt) == [ok |-> TRUE, value |-> val, next |-> nxt]

RECURSIVE SkipWs(_, _)
SkipWs(s, i) ==
  IF i <= Len(s) /\ s[i] \in JsonWs THEN SkipWs(s, i + 1) ELSE i

At(s, i) == IF i <= Len(s) THEN s[i] ELSE "EOF"

MatchLit(s, i, lit) ==
  /\ i + Len(lit) - 1 <= Len(s)
  /\ SubSeq(s, i, i + Len(lit) - 1) = lit

\* i is the position after the opening quote
RECURSIVE ScanString(_, _, _)
ScanString(s, i, acc) ==
  IF i > Len(s) THEN ParseFail
  ELSE IF s[i] = DQ THEN Parsed(JStr(acc), i + 1)
  ELSE IF s[i] = BS
    THEN IF At(s, i + 1) \in {DQ, BS}
           THEN ScanString(s, i + 2, Append(acc, s[i + 1]))
           ELSE ParseFail
  ELSE ScanString(s, i + 1, Append(acc, s[i]))

RECURSIVE DigitsEnd(_, _)
DigitsEnd(s, i) == IF At(s, i) \in Digits THEN DigitsEnd(s, i + 1) ELSE i

ScanNumber(s, i) ==
  LET e == DigitsEnd(s, i)
  IN IF s[i] = "0" /\ e > i + 1 THEN ParseFail
     ELSE Parsed(JNum(NumVal(SubSeq(s, i, e - 1))), e)

RECURSIVE ParseValue(_, _), ParseElems(_, _, _), ParseMembers(_, _, _)
ParseValue(s, i0) ==
  LET i == SkipWs(s, i0)
      c == At(s, i)
  IN CASE c = DQ -> ScanString(s, i + 1, <<>>)
       [] c \in Digits -> ScanNumber(s, i)
       [] c = "[" ->
            IF At(s, SkipWs(s, i + 1)) = "]"
              THEN Parsed(JArr(<<>>), SkipWs(s, i + 1) + 1)
              ELSE ParseElems(s, i + 1, <<>>)
       [] c = "{" ->
            IF At(s, SkipWs(s, i + 1)) = "}"
              THEN Parsed(EmptyObj, SkipWs(s, i + 1) + 1)
              ELSE ParseMembers(s, i + 1, <<>>)
       [] c = "n" /\ MatchLit(s, i, <<"n", "u", "l", "l">>) -> Parsed(JNull, i + 4)
       [] c = "t" /\ MatchLit(s, i, <<"t", "r", "u", "e">>) -> Parsed(JBool(TRUE), i + 4)
       [] c = "f" /\ MatchLit(s, i, <<"f", "a", "l", "s", "e">>) -> Parsed(JBool(FALSE), i + 5)
       [] OTHER -> ParseFail

ParseElems(s, i, acc) ==
  LET r == ParseValue(s, i)
  IN IF ~r.ok THEN ParseFail
     ELSE LET k == SkipWs(s, r.next)
          IN CASE At(s, k) = "," -> ParseElems(s, k + 1, Append(acc, r.value))
               [] At(s, k) = "]" -> Parsed(JArr(Append(acc, r.value)), k + 1)
               [] OTHER -> ParseFail

ParseMembers(s, i0, acc) ==
  LET i == SkipWs(s, i0)
  IN IF At(s, i) # DQ THEN ParseFail
     ELSE LET key == ScanString(s, i + 1, <<>>)
          IN IF ~key.ok THEN ParseFail
             ELSE LET c == SkipWs(s, key.next)
                  IN IF At(s, c) # ":" THEN ParseFail
                     ELSE LET r == ParseValue(s, c + 1)
                          IN IF ~r.ok THEN ParseFail
                             ELSE LET k == SkipWs(s, r.next)
                                      nacc == DefineOwn(acc, key.value.v, r.value)
                                  IN CASE At(s, k) = "," -> ParseMembers(s, k + 1, nacc)
                                       [] At(s, k) = "}" -> Parsed(JObj(nacc), k + 1)
                                       [] OTHER -> ParseFail

\* String(e) of the SyntaxError JSON.parse throws
SyntaxErrorText == <<"SyntaxError: Unexpected token">>

safeJsonParse(text) ==
  LET r == ParseValue(text, 1)
  IN IF r.ok /\ SkipWs(text, r.next) = Len(text) + 1
       THEN [ok |-> TRUE, value |-> r.value]
       ELSE [ok |-> FALSE, error |-> SyntaxErrorText]

\* ------------------------------------------------------- text helpers
StartsWith(s, p) == Len(p) <= Len(s) /\ SubSeq(s, 1, Len(p)) = p

RECURSIVE TrimLeft(_)
TrimLeft(s) ==
  IF s # <<>> /\ Head(s) \in TrimWs THEN TrimLeft(Tail(s)) ELSE s

RECURSIVE TrimRight(_)
TrimRight(s) ==
  IF s # <<>> /\ s[Len(s)] \in TrimWs
    THEN TrimRight(SubSeq(s, 1, Len(s) - 1))
    ELSE s

Trim(s) == TrimRight(TrimLeft(s))

\* position of the first c in s, 0 when there is none
IndexOf(s, c) ==
  IF \E i \in 1..Len(s) : s[i] = c
    THEN CHOOSE i \in 1..Len(s) : s[i] = c /\ \A j \in 1..(i - 1) : s[j] # c
    ELSE 0

RECURSIVE SplitOn(_, _)
SplitOn(s, c) ==
  LET i == IndexOf(s, c)
  IN IF i = 0 THEN <<s>>
     ELSE <<SubSeq(s, 1, i - 1)>> \o SplitOn(SubSeq(s, i + 1, Len(s)), c)

\* String.prototype.toLowerCase on the header symbols the requests carry
LowerSym(c) ==
  CASE c = "Content-Type" -> "content-type"
    [] c = "Application/X-WWW-Form-Urlencoded" -> "application/x-www-form-urlencoded"
    [] c = "Text/Plain" -> "text/plain"
    [] OTHER -> c

ToLower(s) == [i \in 1..Len(s) |-> LowerSym(s[i])]

\* ------------------------------------------------------ URLSearchParams
\* the percent escapes the request bodies use: "%" h1 h2 -> character
PctCodes == {<<"2", "6", "&">>, <<"3", "D", "=">>, <<"2", "0", " ">>,
             <<"2", "5", "%">>, <<"2", "B", "+">>, <<"2", "2", DQ>>,
             <<"7", "B", "{">>, <<"7", "D", "}">>}

IsPct(s, i) ==
  /\ s[i] = "%"
  /\ i + 2 <= Len(s)
  /\ \E c \in PctCodes : c[1] = s[i + 1] /\ c[2] = s[i + 2]

PctChar(s, i) == (CHOOSE c \in PctCodes : c[1] = s[i + 1] /\ c[2] = s[i + 2])[3]

\* a decoder that leaves the text as it came
FormDecodeNone(s, i) == SubSeq(s, i, Len(s))

\* "+" -> space, then percent-decoding; a "%" that starts no escape stays
RECURSIVE FormDecode(_, _)
FormDecode(s, i) ==
  IF i > Len(s) THEN <<>>
  ELSE IF s[i] = "+" THEN <<" ">> \o FormDecode(s, i + 1)
  ELSE IF IsPct(s, i) THEN <<PctChar(s, i)>> \o FormDecode(s, i + 3)
  ELSE <<s[i]>> \o FormDecode(s, i + 1)

\* new URLSearchParams(raw).entries(): the decoded <<name, value>> list
RECURSIVE FormEntries(_)
FormEntries(pieces) ==
  IF pieces = <<>> THEN <<>>
  ELSE LET p == Head(pieces)
           e == IndexOf(p, "=")
           name == IF e = 0 THEN p ELSE SubSeq(p, 1, e - 1)
           val == IF e = 0 THEN <<>> ELSE SubSeq(p, e + 1, Len(p))
       IN (IF p = <<>> THEN <<>>
           ELSE <<<<FormDecode(name, 1), FormDecode(val, 1)>>>>)
            \o FormEntries(Tail(pieces))

URLSearchParams(raw) ==
  FormEntries(SplitOn(IF raw # <<>> /\ Head(raw) = "?" THEN Tail(raw) ELSE raw, "&"))

ProtoKey == <<"__proto__">>

\* obj[k] = v on a plain object literal with a string v: the inherited
\* __proto__ setter ignores a string, every other key becomes own
AssignProp(ps, k, val) ==
  IF k = ProtoKey THEN ps ELSE DefineOwn(ps, k, val)

RECURSIVE AssignAll(_, _)
AssignAll(ps, entries) ==
  IF entries = <<>> THEN ps
  ELSE AssignAll(AssignProp(ps, Head(entries)[1], JStr(Head(entries)[2])),
                 Tail(entries))

parseFormUrlEncoded(raw) ==
  [ok |-> TRUE, value |-> JObj(AssignAll(<<>>, URLSearchParams(raw)))]

\* Object.keys(x).length of an object
KeyCount(x) == Len(x.v)

\* ------------------------------------------------------- body normalizer
\* event.body is text here: the events of the model never set
\* isBase64Encoded, so the Buffer branch is not taken
getRawBody(event) == IF event.body = <<>> THEN <<>> ELSE event.body

sanitizeRaw(raw) ==
  LET s0 == Trim(raw)
      s1 == IF s0 # <<>> /\ Head(s0) = BOM THEN Tail(s0) ELSE s0
  IN IF Len(s1) >= 2 /\ Head(s1) = SQ /\ s1[Len(s1)] = SQ
       THEN Trim(SubSeq(s1, 2, Len(s1) - 1))
       ELSE s1

\* the value without the ?? {} fallback
OrNothing(x) == x

\* x ?? {}
OrEmptyObj(x) == IF x = JNull THEN EmptyObj ELSE x

RawPayload(raw0) == JObj(<<<<<<"rawBody">>, JStr(raw0)>>>>)

Outcome(payload, parsedAs, parseError) ==
  [payload |-> payload, parsedAs |-> parsedAs, parseError |-> parseError]

\* parseError = <<>> stands for "no parseError" (undefined / null)
parsePayload(event) ==
  LET raw0 == getRawBody(event)
      raw == sanitizeRaw(raw0)
      j1 == safeJsonParse(raw)
      j2 == safeJsonParse(j1.value.v)
      f == parseFormUrlEncoded(raw)
  IN IF raw = <<>> THEN Outcome(EmptyObj, "empty", <<>>)
     ELSE IF j1.ok
       THEN IF j1.value.t = "str"
              THEN IF j2.ok
                     THEN Outcome(OrEmptyObj(j2.value), "json-double", <<>>)
                     ELSE Outcome(RawPayload(raw0), "raw", j2.error)
              ELSE Outcome(OrEmptyObj(j1.value), "json", <<>>)
     ELSE IF f.ok /\ KeyCount(f.value) > 0
       THEN Outcome(f.value, "form-urlencoded", <<>>)
     ELSE Outcome(RawPayload(raw0), "raw", j1.error)

\* the inline parse of flow-proxy.js
FlowProxyParse(event) ==
  LET rawBody == getRawBody(event)
      j == safeJsonParse(rawBody)
      f == parseFormUrlEncoded(rawBody)
  IN IF rawBody = <<>> THEN Outcome(EmptyObj, "empty", <<>>)
     ELSE IF j.ok THEN Outcome(OrEmptyObj(j.value), "json", <<>>)
     ELSE IF f.ok /\ KeyCount(f.value) > 0
       THEN Outcome(f.value, "form-urlencoded", <<>>)
     ELSE Outcome(RawPayload(rawBody), "raw", j.error)

\* ------------------------------------------------------------ constants
API_VERSION == <<"api-v8-2026-01-30">>
FP_VERSION == <<"v4-2026-01-29-FIX">>
DEFAULT_FLOW_BASE_URL == <<"https://flow.eraenterprise.id">>
DEFAULT_N8N_WEBHOOK_URL ==
  <<"https://flow.eraenterprise.id/webhook/eramed-clara-appsmith">>
LOGIN_PATH == <<"/webhook/api/auth/login">>
SIGNUP_PATH == <<"/webhook/api/auth/signup">>
FP_TIMEOUT_MS == 15000

JsonCt == <<"application/json">>
FpCt == <<"application/json; charset=utf-8">>

\* new Date().toISOString()
NowText == <<"2026-01-30T00:00:00.000Z">>

K(name) == <<name>>

Resp(status, ctype, body, local) ==
  [statusCode |-> status, contentType |-> ctype, body |-> body, local |-> local]

NoResp == Resp(0, <<>>, <<>>, FALSE)
NoReq == [url |-> <<>>, apiKey |-> <<>>, body |-> <<>>, signal |-> FALSE]
NoReply == [status |-> 0, text |-> <<>>, ctype |-> <<>>]
NoOutcome == Outcome(JNull, "none", <<>>)

\* event.httpMethod || "GET"
MethodOrGet(event) == IF event.httpMethod = "" THEN "GET" ELSE event.httpMethod

FnPrefix == <<"/", ".netlify", "/", "functions", "/", "api">>

normalizePath(event) ==
  LET rawPath == IF event.path = <<>> THEN <<"/">> ELSE event.path
      p1 == IF StartsWith(rawPath, FnPrefix)
              THEN SubSeq(rawPath, Len(FnPrefix) + 1, Len(rawPath))
              ELSE rawPath
      p2 == IF StartsWith(p1, <<"/", "api", "/">>) THEN SubSeq(p1, 3, Len(p1)) ELSE p1
      p3 == IF p2 = <<"/", "api">> THEN <<"/">> ELSE p2
  IN IF StartsWith(p3, <<"/">>) THEN p3 ELSE <<"/">> \o p3

getHeader(event, name) ==
  LET h == event.headers
      hits == {i \in 1..Len(h) : LowerSym(h[i][1]) = LowerSym(name)}
  IN IF hits = {} THEN <<>>
     ELSE h[CHOOSE i \in hits : \A j \in hits : i <= j][2]

\* contentTypeRaw.split(";")[0].trim().toLowerCase()
DeclaredContentType(event) ==
  ToLower(Trim(SplitOn(getHeader(event, "content-type"), ";")[1]))

\* Boolean(text) of an environment value, <<>> when unset
IsSet(text) == text # <<>>

OrNull(text) == IF text = <<>> THEN JNull ELSE JStr(text)

\* String(e) of what fetch / text() rejects with
ErrString(kind) ==
  IF kind = "abort" THEN <<"AbortError", ": This operation was aborted">>
  ELSE <<"TypeError", ": ", "fetch failed">>

\* e.message
ErrMessage(kind) ==
  IF kind = "abort" THEN <<"This operation was aborted">> ELSE <<"fetch failed">>

Includes(text, sym) == \E i \in 1..Len(text) : text[i] = sym

TimeoutText(ms) == <<"Upstream timeout after ">> \o NumText(ms) \o <<"ms">>

\* ------------------------------------------------------------- api.js
ApiFlowBase(env) ==
  Trim(IF IsSet(env.FLOW_BASE_URL) THEN env.FLOW_BASE_URL ELSE DEFAULT_FLOW_BASE_URL)

ApiFlowKey(env) == Trim(env.FLOW_API_KEY)

ApiHealthBody(event, env) ==
  Stringify(JObj(
    << <<K("ok"), JBool(TRUE)>>,
       <<K("version"), JStr(API_VERSION)>>,
       <<K("service"), JStr(<<"api">>)>>,
       <<K("time"), JStr(NowText)>>,
       <<K("flow_base_set"), JBool(IsSet(env.FLOW_BASE_URL))>>,
       <<K("flow_key_set"), JBool(IsSet(env.FLOW_API_KEY))>> >>
    \o (IF event.debug
          THEN << <<K("debug"), JObj(
                     << <<K("flowBase"), JStr(ApiFlowBase(env))>>,
                        <<K("hasKey"), JBool(IsSet(ApiFlowKey(env)))>> >>)>> >>
          ELSE <<>>)))

ApiMethodNotAllowed(method) ==
  Resp(405, JsonCt,
       Stringify(JObj(
         << <<K("ok"), JBool(FALSE)>>,
            <<K("version"), JStr(API_VERSION)>>,
            <<K("message"), JStr(<<"Method ", method, " not allowed">>)>> >>)),
       TRUE)

ApiNotFound(path, method) ==
  Resp(404, JsonCt,
       Stringify(JObj(
         << <<K("ok"), JBool(FALSE)>>,
            <<K("version"), JStr(API_VERSION)>>,
            <<K("message"), JStr(<<"Not Found">>)>>,
            <<K("path"), JStr(path)>>,
            <<K("method"), JStr(<<method>>)>> >>)),
       TRUE)

\* the request proxyToFlow hands to fetchWithTimeout
ApiRequest(env, url, outcome) ==
  [url |-> url, apiKey |-> ApiFlowKey(env),
   body |-> Stringify(outcome.payload), signal |-> TRUE]

\* an upstream error status turned into 502
UpstreamStatusAs502(reply) == IF reply.status >= 400 THEN 502 ELSE reply.status

\* statusCode: upstream.status
UpstreamStatus(reply) == reply.status

\* upstream.headers.get("content-type") || "application/json"
UpstreamCt(reply) == IF reply.ctype # <<>> THEN reply.ctype ELSE JsonCt

PassThrough(reply) ==
  Resp(UpstreamStatus(reply), UpstreamCt(reply), reply.text, FALSE)

ApiGatewayError(env, url, outcome, kind) ==
  LET msg == IF Includes(ErrString(kind), "AbortError")
               THEN TimeoutText(TIMEOUT_MS)
               ELSE ErrMessage(kind)
  IN Resp(502, JsonCt,
          Stringify(JObj(
            << <<K("ok"), JBool(FALSE)>>,
               <<K("version"), JStr(API_VERSION)>>,
               <<K("message"), JStr(<<"Gateway error ke flow">>)>>,
               <<K("detail"), JStr(msg)>>,
               <<K("meta"), JObj(
                  << <<K("upstreamUrl"), JStr(url)>>,
                     <<K("parsedAs"), JStr(<<outcome.parsedAs>>)>> >>
                  \o (IF outcome.parseError # <<>>
                        THEN << <<K("parseError"), JStr(outcome.parseError)>> >>
                        ELSE <<>>)
                  \o << <<K("flow_base_set"), JBool(IsSet(env.FLOW_BASE_URL))>>,
                        <<K("flow_key_set"), JBool(IsSet(env.FLOW_API_KEY))>> >>)>> >>)),
          TRUE)

\* -------------------------------------------------------- flow-proxy.js
FpEnvUrl(env) == Trim(env.N8N_WEBHOOK_URL)

FpChosenUrl(env) ==
  IF FpEnvUrl(env) # <<>> THEN FpEnvUrl(env) ELSE DEFAULT_N8N_WEBHOOK_URL

FpHealth(event, env) ==
  Resp(200, FpCt,
       Stringify(JObj(
         << <<K("ok"), JBool(TRUE)>>,
            <<K("version"), JStr(FP_VERSION)>>,
            <<K("message"),
              JStr(<<"flow-proxy is running. Send POST to forward to n8n.">>)>> >>
         \o (IF event.debug
               THEN << <<K("debug"), JObj(
                          << <<K("envPresent"), JBool(IsSet(FpEnvUrl(env)))>>,
                             <<K("envUrlRaw"), OrNull(FpEnvUrl(env))>>,
                             <<K("chosenUrl"), JStr(FpChosenUrl(env))>> >>)>> >>
               ELSE <<>>))),
       TRUE)

FpMethodNotAllowed(method) ==
  Resp(405, FpCt,
       Stringify(JObj(
         << <<K("ok"), JBool(FALSE)>>,
            <<K("version"), JStr(FP_VERSION)>>,
            <<K("error"), JStr(<<"Method ", method, " not allowed. Use POST.">>)>> >>)),
       TRUE)

forwardBody(event, outcome) ==
  JObj(<< <<K("source"), JStr(<<"netlify">>)>>,
          <<K("version"), JStr(FP_VERSION)>>,
          <<K("receivedAt"), JStr(NowText)>>,
          <<K("contentType"), OrNull(DeclaredContentType(event))>>,
          <<K("parsedAs"), JStr(<<outcome.parsedAs>>)>> >>
       \o (IF outcome.parseError # <<>>
             THEN << <<K("parseError"), JStr(outcome.parseError)>> >>
             ELSE <<>>)
       \o << <<K("payload"), outcome.payload>> >>)

FpRequest(event, env, outcome) ==
  [url |-> FpChosenUrl(env), apiKey |-> <<>>,
   body |-> Stringify(forwardBody(event, outcome)), signal |-> TRUE]

\* res.ok
ResOk(reply) == reply.status >= 200 /\ reply.status <= 299

\* the raw text handed on without the { ok, status, text } wrapper
FpOutUnwrapped(reply) ==
  IF safeJsonParse(reply.text).ok THEN safeJsonParse(reply.text).value
  ELSE JStr(reply.text)

\* maybeJson.ok ? maybeJson.value : { ok, status, text }
FpOut(reply) ==
  LET maybeJson == safeJsonParse(reply.text)
  IN IF maybeJson.ok THEN maybeJson.value
     ELSE JObj(<< <<K("ok"), JBool(ResOk(reply))>>,
                  <<K("status"), JNum(reply.status)>>,
                  <<K("text"), JStr(reply.text)>> >>)

FpSuccess(reply) ==
  Resp(UpstreamStatus(reply), FpCt, Stringify(FpOut(reply)), FALSE)

FpGatewayError(env, kind) ==
  LET msg == IF Includes(ErrString(kind), "AbortError")
               THEN TimeoutText(FP_TIMEOUT_MS)
               ELSE ErrString(kind)
  IN Resp(502, FpCt,
          Stringify(JObj(
            << <<K("ok"), JBool(FALSE)>>,
               <<K("version"), JStr(FP_VERSION)>>,
               <<K("error"), JStr(<<"Failed to call n8n">>)>>,
               <<K("detail"), JStr(msg)>>,
               <<K("envPresent"), JBool(IsSet(FpEnvUrl(env)))>>,
               <<K("chosenUrl"), JStr(FpChosenUrl(env))>> >>)),
          TRUE)

\* ------------------------------------------------ login handler (part_000)
LoginFlowBase(env) ==
  IF IsSet(env.FLOW_BASE_URL) THEN env.FLOW_BASE_URL ELSE DEFAULT_FLOW_BASE_URL

\* JSON.parse(event.body || "{}")
LoginParse(event) ==
  safeJsonParse(IF event.body = <<>> THEN <<"{", "}">> ELSE event.body)

LoginRequest(env, outcome) ==
  [url |-> LoginFlowBase(env) \o LOGIN_PATH, apiKey |-> env.FLOW_API_KEY,
   body |-> Stringify(outcome.payload), signal |-> FALSE]

LoginMethodNotAllowed == Resp(405, <<>>, <<"Method Not Allowed">>, TRUE)

LoginBadBody ==
  Resp(400, <<>>,
       Stringify(JObj(<< <<K("ok"), JBool(FALSE)>>,
                         <<K("message"), JStr(<<"Body harus JSON">>)>> >>)),
       TRUE)

LoginGatewayError(kind) ==
  Resp(502, <<>>,
       Stringify(JObj(<< <<K("ok"), JBool(FALSE)>>,
                         <<K("message"), JStr(<<"Gateway error ke flow">>)>>,
                         <<K("detail"), JStr(ErrMessage(kind))>> >>)),
       TRUE)

\* ------------------------------------------------------------- timers
\* a clearTimeout that was forgotten
ClearTimeoutMissing(tm) == tm

\* clearTimeout(t): a pending timer is cancelled, any other is left alone
ClearTimeout(tm) == IF tm = "pending" THEN "cleared" ELSE tm

\* a catch block that tries the call again
CatchRetryPc == "forward"

\* where the catch block of a forwarding handler leaves: it returns
CatchNextPc == "done"

\* ------------------------------------------------------------- inputs
Handlers == {"api", "flowproxy", "login"}

Methods == {"", "GET", "POST", "OPTIONS", "PUT"}

ApiPaths ==
  { <<>>,
    <<"/", "api">>,
    <<"/", "api", "/", "health">>,
    <<"/", "api", "/", "auth", "/", "login">>,
    <<"/", ".netlify", "/", "functions", "/", "api", "/", "auth", "/", "signup">>,
    <<"/", "api", "/", "unknown">> }

OtherPath == <<"/", ".netlify", "/", "functions", "/", "fn">>

\* request bodies of the handler runs: empty, a JSON object, a form body,
\* a body no stage accepts, a bare JSON number, double-encoded JSON,
\* single-quoted JSON, the JSON literal null, JSON after a byte-order mark
SampleBodies ==
  { <<>>,
    <<"{", DQ, "a", DQ, ":", "1", "}">>,
    <<"a", "=", "1", "&", "b", "=", "%", "2", "6">>,
    <<"&">>,
    <<"1", "2">>,
    <<DQ, "{", BS, DQ, "a", BS, DQ, ":", "1", "}", DQ>>,
    <<SQ, "{", DQ, "a", DQ, ":", "1", "}", SQ>>,
    <<"n", "u", "l", "l">>,
    <<BOM, "{", "}", " ">> }

HeaderSets ==
  { <<>>,
    << <<"Content-Type",
         <<"Application/X-WWW-Form-Urlencoded", ";", " ", "charset=utf-8">>>> >> }

Secret == "k3y-s3cr3t"

Envs ==
  { [FLOW_BASE_URL |-> <<>>, FLOW_API_KEY |-> <<>>, N8N_WEBHOOK_URL |-> <<>>],
    [FLOW_BASE_URL |-> <<"https://flow.test">>, FLOW_API_KEY |-> <<Secret>>,
     N8N_WEBHOOK_URL |-> <<"https://n8n.test/webhook/x">>],
    [FLOW_BASE_URL |-> <<"https://flow.test", " ">>, FLOW_API_KEY |-> <<" ">>,
     N8N_WEBHOOK_URL |-> <<" ">>] }

Events(h) ==
  { [httpMethod |-> m, path |-> p, body |-> b, headers |-> hs, debug |-> d] :
      m \in Methods,
      p \in (IF h = "api" THEN ApiPaths ELSE {OtherPath}),
      b \in SampleBodies,
      hs \in (IF h = "flowproxy" THEN HeaderSets ELSE {<<>>}),
      d \in BOOLEAN }

\* a request without a body carries none; debug is a query of a GET
EventOk(e) ==
  /\ (e.httpMethod # "POST" => e.body = <<>> /\ e.headers = <<>>)
  /\ (e.httpMethod \notin {"", "GET"} => ~e.debug)

\* what the upstream may answer: status, body text, content-type header
UpReplies ==
  { [status |-> 200, text |-> <<"{", DQ, "ok", DQ, ":", "t", "r", "u", "e", "}">>,
     ctype |-> JsonCt],
    [status |-> 201, text |-> <<"{", " ", DQ, "id", DQ, " ", ":", " ", "7", "}">>,
     ctype |-> JsonCt],
    [status |-> 401, text |-> <<"{", DQ, "ok", DQ, ":", "f", "a", "l", "s", "e", "}">>,
     ctype |-> <<>>],
    [status |-> 500, text |-> <<"Internal Server Error">>, ctype |-> <<"text/plain">>],
    [status |-> 502, text |-> <<"Bad Gateway">>, ctype |-> <<"text/html">>],
    [status |-> 200, text |-> <<>>, ctype |-> <<>>] }

\* -------------------------------------------------------------- state
VARIABLES
  handler,            \* which function serves the request
  event,              \* the inbound request
  env,                \* process.env
  pc,                 \* where the handler is
  timer,              \* the setTimeout of the request: none/pending/fired/cleared
  aborted,            \* controller.signal.aborted
  calls,              \* outbound fetch calls issued so far
  sent,               \* the request of the last fetch call
  up,                 \* the upstream side of the exchange
  parsed,             \* the ParseOutcome of the body
  caught,             \* what the awaited promise rejected with
  resp,               \* the response the handler returned
  elapsed,            \* the deadline (timeout budget after the call) has passed
  pendingAtDeadline,  \* the upstream had not completed when it passed
  readOk,             \* the handler obtained the upstream's whole body
  forwarded,          \* the request reached the forwarding step
  formPairs           \* the form fields the body was encoded from, if any

vars == <<handler, event, env, pc, timer, aborted, calls, sent, up, parsed,
          caught, resp, elapsed, pendingAtDeadline, readOk, forwarded, formPairs>>

inputs == <<handler, event, env, formPairs>>

InitRun ==
  /\ timer = "none"
  /\ aborted = FALSE
  /\ calls = 0
  /\ sent = NoReq
  /\ up = [phase |-> "idle", reply |-> NoReply]
  /\ parsed = NoOutcome
  /\ caught = "none"
  /\ resp = NoResp
  /\ elapsed = FALSE
  /\ pendingAtDeadline = FALSE
  /\ readOk = FALSE
  /\ forwarded = FALSE

Init ==
  /\ handler \in Handlers
  /\ event \in {e \in Events(handler) : EventOk(e)}
  /\ env \in Envs
  /\ formPairs = <<>>
  /\ pc = "recv"
  /\ InitRun

Return(r) ==
  /\ resp' = r
  /\ pc' = "done"

GoForward(outcome) ==
  /\ parsed' = outcome
  /\ forwarded' = TRUE
  /\ pc' = "forward"
  /\ UNCHANGED resp

\* the target URL of the forwarding step
ApiFlowPath(event_) ==
  IF normalizePath(event_) = <<"/", "auth", "/", "login">> THEN LOGIN_PATH ELSE SIGNUP_PATH

UpstreamUrl(h, event_, env_) ==
  CASE h = "api" -> ApiFlowBase(env_) \o ApiFlowPath(event_)
    [] h = "flowproxy" -> FpChosenUrl(env_)
    [] h = "login" -> LoginFlowBase(env_) \o LOGIN_PATH

\* api.js exports.handler up to the call of proxyToFlow, and proxyToFlow up
\* to the fetch
ApiHandler ==
  /\ pc = "recv" /\ handler = "api"
  /\ LET method == MethodOrGet(event)
         path == normalizePath(event)
     IN IF method = "OPTIONS"
          THEN Return(Resp(204, <<>>, <<>>, TRUE)) /\ UNCHANGED <<parsed, forwarded>>
        ELSE IF method = "GET" /\ path = <<"/", "health">>
          THEN Return(Resp(200, JsonCt, ApiHealthBody(event, env), TRUE))
               /\ UNCHANGED <<parsed, forwarded>>
        ELSE IF method # "POST"
          THEN Return(ApiMethodNotAllowed(method)) /\ UNCHANGED <<parsed, forwarded>>
        ELSE IF path \in {<<"/", "auth", "/", "login">>, <<"/", "auth", "/", "signup">>}
          THEN GoForward(parsePayload(event))
        ELSE Return(ApiNotFound(path, method)) /\ UNCHANGED <<parsed, forwarded>>
  /\ UNCHANGED <<inputs, timer, aborted, calls, sent, up, caught, elapsed,
                 pendingAtDeadline, readOk>>

\* flow-proxy.js handler up to the forwarding step
FlowProxyHandler ==
  /\ pc = "recv" /\ handler = "flowproxy"
  /\ LET method == MethodOrGet(event)
     IN IF method = "OPTIONS"
          THEN Return(Resp(204, FpCt, <<>>, TRUE)) /\ UNCHANGED <<parsed, forwarded>>
        ELSE IF method = "GET"
          THEN Return(FpHealth(event, env)) /\ UNCHANGED <<parsed, forwarded>>
        ELSE IF method # "POST"
          THEN Return(FpMethodNotAllowed(method)) /\ UNCHANGED <<parsed, forwarded>>
        ELSE GoForward(FlowProxyParse(event))
  /\ UNCHANGED <<inputs, timer, aborted, calls, sent, up, caught, elapsed,
                 pendingAtDeadline, readOk>>

\* the login handler up to the forwarding step
LoginHandler ==
  /\ pc = "recv" /\ handler = "login"
  /\ IF event.httpMethod = "OPTIONS"
       THEN Return(Resp(204, <<>>, <<>>, TRUE)) /\ UNCHANGED <<parsed, forwarded>>
     ELSE IF event.httpMethod # "POST"
       THEN Return(LoginMethodNotAllowed) /\ UNCHANGED <<parsed, forwarded>>
     ELSE IF ~LoginParse(event).ok
       THEN Return(LoginBadBody) /\ UNCHANGED <<parsed, forwarded>>
     ELSE GoForward(Outcome(LoginParse(event).value, "none", <<>>))
  /\ UNCHANGED <<inputs, timer, aborted, calls, sent, up, caught, elapsed,
                 pendingAtDeadline, readOk>>

\* the forwarding step: the timer is armed (api.js, flow-proxy.js) and the
\* one fetch call is issued
Forward ==
  /\ pc = "forward"
  /\ calls < MaxCalls
  /\ sent' = CASE handler = "api" ->
                    ApiRequest(env, UpstreamUrl(handler, event, env), parsed)
               [] handler = "flowproxy" -> FpRequest(event, env, parsed)
               [] handler = "login" -> LoginRequest(env, parsed)
  /\ timer' = IF handler = "login" THEN timer ELSE "pending"
  /\ calls' = calls + 1
  /\ up' = [phase |-> "called", reply |-> NoReply]
  /\ pc' = "awaitFetch"
  /\ UNCHANGED <<inputs, aborted, parsed, caught, resp, elapsed,
                 pendingAtDeadline, readOk, forwarded>>

\* the upstream answers: status line and headers arrive, fetch resolves
UpstreamResponds ==
  /\ pc = "awaitFetch" /\ up.phase = "called"
  /\ \E r \in UpReplies : up' = [phase |-> "headers", reply |-> r]
  /\ pc' = "gotResponse"
  /\ UNCHANGED <<inputs, timer, aborted, calls, sent, parsed, caught, resp,
                 elapsed, pendingAtDeadline, readOk, forwarded>>

\* the handler resumes after `await fetch`: fetchWithTimeout's finally
\* clears the timer (api.js), then text() is called; a body read under an
\* aborted signal rejects
AfterFetch ==
  /\ pc = "gotResponse"
  /\ timer' = IF handler = "api" THEN ClearTimeout(timer) ELSE timer
  /\ IF aborted
       THEN pc' = "caught" /\ caught' = "abort"
       ELSE pc' = "awaitText" /\ UNCHANGED caught
  /\ UNCHANGED <<inputs, aborted, calls, sent, up, parsed, resp, elapsed,
                 pendingAtDeadline, readOk, forwarded>>

\* the rest of the upstream's body arrives, text() resolves
UpstreamCompletes ==
  /\ pc = "awaitText" /\ up.phase = "headers"
  /\ up' = [up EXCEPT !.phase = "complete"]
  /\ pc' = "gotText"
  /\ UNCHANGED <<inputs, timer, aborted, calls, sent, parsed, caught, resp,
                 elapsed, pendingAtDeadline, readOk, forwarded>>

\* the handler resumes after `await text()` and returns the success response
AfterText ==
  /\ pc = "gotText"
  /\ timer' = IF handler = "flowproxy" THEN ClearTimeout(timer) ELSE timer
  /\ readOk' = TRUE
  /\ Return(IF handler = "flowproxy" THEN FpSuccess(up.reply) ELSE PassThrough(up.reply))
  /\ UNCHANGED <<inputs, aborted, calls, sent, up, parsed, caught, elapsed,
                 pendingAtDeadline, forwarded>>

\* DNS, connection, TLS or stream failure: the awaited promise rejects
UpstreamFails ==
  /\ pc \in {"awaitFetch", "awaitText"}
  /\ up.phase \in {"called", "headers"}
  /\ up' = [up EXCEPT !.phase = "failed"]
  /\ pc' = "caught"
  /\ caught' = "transport"
  /\ UNCHANGED <<inputs, timer, aborted, calls, sent, parsed, resp, elapsed,
                 pendingAtDeadline, readOk, forwarded>>

\* the budget passes; a timer still pending fires and aborts the signal,
\* which rejects the promise the handler waits on
DeadlineElapses ==
  /\ calls > 0 /\ ~elapsed
  /\ elapsed' = TRUE
  /\ pendingAtDeadline' = (up.phase \in {"called", "headers"})
  /\ IF timer = "pending"
       THEN /\ timer' = "fired"
            /\ aborted' = TRUE
            /\ IF pc \in {"awaitFetch", "awaitText"}
                 THEN /\ pc' = "caught"
                      /\ caught' = "abort"
                      /\ up' = [up EXCEPT !.phase = "cancelled"]
                 ELSE UNCHANGED <<pc, caught, up>>
       ELSE UNCHANGED <<timer, aborted, pc, caught, up>>
  /\ UNCHANGED <<inputs, calls, sent, parsed, resp, readOk, forwarded>>

\* the catch block: the timer is cleared (finally of fetchWithTimeout in
\* api.js, clearTimeout in flow-proxy.js) and the 502 is returned
Catch ==
  /\ pc = "caught"
  /\ timer' = IF handler = "login" THEN timer ELSE ClearTimeout(timer)
  /\ resp' = CASE handler = "api" ->
                    ApiGatewayError(env, UpstreamUrl(handler, event, env), parsed, caught)
               [] handler = "flowproxy" -> FpGatewayError(env, caught)
               [] handler = "login" -> LoginGatewayError(caught)
  /\ pc' = CatchNextPc
  /\ UNCHANGED <<inputs, aborted, calls, sent, up, parsed, caught, elapsed,
                 pendingAtDeadline, readOk, forwarded>>

Next ==
  \/ ApiHandler
  \/ FlowProxyHandler
  \/ LoginHandler
  \/ Forward
  \/ UpstreamResponds
  \/ AfterFetch
  \/ UpstreamCompletes
  \/ AfterText
  \/ UpstreamFails
  \/ DeadlineElapses
  \/ Catch

Spec == Init /\ [][Next]_vars

\* ------------------------------------------------- the normalizer alone
Alphabet == {"{", "}", "[", "]", DQ, SQ, "1", "a", "=", " "}

ShortTexts == UNION {[1..n -> Alphabet] : n \in 0..MaxLen}

FormKeys == {<<"a">>, <<"b", "=">>, <<"1", "2">>, <<"t", "r", "u", "e">>, ProtoKey}

FormValues == {<<>>, <<"1">>, <<"x", " ", "&">>, <<"%">>}

\* a field of a form; bare: written as the name alone, without "="
FormField == {f \in [k : FormKeys, v : FormValues, bare : BOOLEAN] :
                f.bare => f.v = <<>>}

FieldLists == UNION {[1..n -> FormField] : n \in 1..MaxFields}

\* application/x-www-form-urlencoded serialisation of a text
RECURSIVE FormEscape(_)
FormEscape(s) ==
  IF s = <<>> THEN <<>>
  ELSE (IF Head(s) = " " THEN <<"+">>
        ELSE IF \E c \in PctCodes : c[3] = Head(s)
          THEN LET c == CHOOSE c \in PctCodes : c[3] = Head(s)
               IN <<"%", c[1], c[2]>>
        ELSE <<Head(s)>>)
       \o FormEscape(Tail(s))

\* the form-urlencoded string of a field list
RECURSIVE FormEncode(_)
FormEncode(fs) ==
  IF fs = <<>> THEN <<>>
  ELSE FormEscape(Head(fs).k)
         \o (IF Head(fs).bare THEN <<>> ELSE <<"=">> \o FormEscape(Head(fs).v))
         \o (IF Len(fs) > 1 THEN <<"&">> ELSE <<>>)
         \o FormEncode(Tail(fs))

PostEvent(b) ==
  [httpMethod |-> "POST", path |-> OtherPath, body |-> b, headers |-> <<>>,
   debug |-> FALSE]

InitNorm ==
  /\ handler \in {"api", "flowproxy"}
  /\ \/ /\ formPairs = <<>>
        /\ event \in {PostEvent(b) : b \in ShortTexts \union SampleBodies}
     \/ /\ formPairs \in FieldLists
        /\ event = PostEvent(FormEncode(formPairs))
  /\ env \in {e \in Envs : e.FLOW_API_KEY = <<>>}
  /\ pc = "norm"
  /\ InitRun

\* parsePayload (api.js) or the inline parse (flow-proxy.js) on the body
Normalize ==
  /\ pc = "norm"
  /\ parsed' = IF handler = "api" THEN parsePayload(event) ELSE FlowProxyParse(event)
  /\ pc' = "normalized"
  /\ UNCHANGED <<inputs, timer, aborted, calls, sent, up, caught, resp, elapsed,
                 pendingAtDeadline, readOk, forwarded>>

NextNorm == Normalize

SpecNorm == InitNorm /\ [][NextNorm]_vars

\* ------------------------------------------------------------- claims
ContainsSub(text, sub) ==
  \E i \in 0..(Len(text) - Len(sub)) : SubSeq(text, i + 1, i + Len(sub)) = sub

IsObjText(text) == safeJsonParse(text).ok /\ safeJsonParse(text).value.t = "obj"

Props(text) == safeJsonParse(text).value.v

\* C1: in every forwarding handler the 15000 ms deadline bounds the whole
\* upstream exchange: when it passes with the upstream's response still
\* incomplete, the handler no longer waits on the upstream and what it
\* returns is a 502 whose body holds "Upstream timeout after 15000ms".
C1_DeadlineBoundsExchange ==
  pendingAtDeadline =>
    /\ pc \notin {"awaitFetch", "awaitText"}
    /\ (pc = "done" =>
          /\ resp.statusCode = 502
          /\ ContainsSub(resp.body, TimeoutText(TIMEOUT_MS)))

\* C2: when a forwarding handler of api.js or flow-proxy.js has returned,
\* no timer of the request is pending (it fired or was cleared), and a
\* timer that fired after the whole response was obtained left the
\* returned result the upstream's.
C2_TimerReleasedOnReturn ==
  pc = "done" =>
    /\ timer # "pending"
    /\ (forwarded /\ handler # "login" => timer \in {"fired", "cleared"})
    /\ (readOk /\ timer = "fired" =>
          ~resp.local /\ resp.statusCode = up.reply.status)

C2_FiredAfterResponse == pc = "done" /\ readOk /\ timer = "fired"

\* C3: a request causes at most one outbound call: exactly one when it is
\* a POST that reached the forwarding step, none when the response is
\* another locally produced one (204, 200, 405, 404, ...), and no second
\* call after a failure or timeout.
C3_AtMostOneCall ==
  /\ calls \in {0, 1}
  /\ (calls = 1 => forwarded /\ MethodOrGet(event) = "POST")
  /\ (pc = "done" /\ forwarded => calls = 1)
  /\ (pc = "done" /\ resp.local /\ resp.statusCode # 502 => calls = 0)

C3_FailedOnce == pc = "done" /\ resp.local /\ resp.statusCode = 502 /\ calls = 1

\* the routes of a handler that forward a POST
ForwardingRoute ==
  handler # "api"
    \/ normalizePath(event) \in {<<"/", "auth", "/", "login">>,
                                 <<"/", "auth", "/", "signup">>}

\* C4: no handler answers a POST body, however malformed, with a 4xx of
\* its own: the only locally generated 4xx are 404 and 405, and a POST to
\* a forwarding route is forwarded whatever its body.
C4_No4xxFromParsing ==
  pc = "done" =>
    /\ (resp.local /\ resp.statusCode >= 400 /\ resp.statusCode <= 499
          => resp.statusCode \in {404, 405})
    /\ (event.httpMethod = "POST" /\ ForwardingRoute => forwarded)

\* C5: once the upstream's response was received and read, the returned
\* status is the upstream's, whatever it is; a 502 of the handler's own
\* comes only from a timeout or transport failure, with no response read.
C5_StatusMirrored ==
  pc = "done" =>
    /\ (readOk => ~resp.local /\ resp.statusCode = up.reply.status)
    /\ (resp.local /\ resp.statusCode = 502 =>
          ~readOk /\ caught \in {"abort", "transport"} /\ up.phase # "complete")

C5_Upstream502PassedThrough ==
  pc = "done" /\ readOk /\ up.reply.status = 502 /\ ~resp.local

EnvelopeKeys == {K("source"), K("version"), K("receivedAt"), K("contentType"),
                 K("parsedAs"), K("payload")}

\* C6: the body of every POST sent upstream is the ForwardEnvelope: an
\* object with source, version, receivedAt, contentType, parsedAs, the
\* parseError exactly when one was recorded, and the payload nested under
\* payload; never the bare payload.
C6_EnvelopeSent ==
  calls > 0 =>
    /\ IsObjText(sent.body)
    /\ \A k \in EnvelopeKeys : HasKey(Props(sent.body), k)
    /\ GetKey(Props(sent.body), K("payload")) = parsed.payload
    /\ GetKey(Props(sent.body), K("parsedAs")) = JStr(<<parsed.parsedAs>>)
    /\ (HasKey(Props(sent.body), K("parseError")) <=> parsed.parseError # <<>>)

\* the body flow-proxy.js returns for an upstream reply, read back
JsonBodyOf(body, reply) ==
  /\ safeJsonParse(body).ok
  /\ IF safeJsonParse(reply.text).ok
       THEN safeJsonParse(body).value = safeJsonParse(reply.text).value
       ELSE /\ safeJsonParse(body).value.t = "obj"
            /\ Props(body) = << <<K("ok"), JBool(reply.status \in 200..299)>>,
                                <<K("status"), JNum(reply.status)>>,
                                <<K("text"), JStr(reply.text)>> >>

\* C7 as stated: whenever an upstream response was received, the returned
\* body is JSON text: the upstream's JSON value re-serialized, or the
\* synthesized { ok, status, text } object; never the raw text unwrapped.
C7_AlwaysJsonBody ==
  pc = "done" /\ readOk => JsonBodyOf(resp.body, up.reply)

\* C7 amended: flow-proxy.js returns JSON text (the upstream's JSON value
\* re-serialized, or the synthesized { ok, status, text } object); api.js
\* and the login handler return the upstream's body text verbatim.
C7_BodyPerHandler ==
  pc = "done" /\ readOk =>
    IF handler = "flowproxy"
      THEN JsonBodyOf(resp.body, up.reply)
      ELSE resp.body = up.reply.text

C7_NonJsonWrapped ==
  /\ pc = "done" /\ readOk /\ handler = "flowproxy"
  /\ ~safeJsonParse(up.reply.text).ok
  /\ up.reply.text # <<>>

ParsedAsValues == {"empty", "json", "json-double", "form-urlencoded", "raw"}

LastValue(fs, k) ==
  fs[CHOOSE i \in 1..Len(fs) : fs[i].k = k /\ \A j \in (i + 1)..Len(fs) : fs[j].k # k].v

\* the decoded mapping of a field list over the keys ks: last value wins
FieldMap(fs, ks) == {<<k, JStr(LastValue(fs, k))>> : k \in ks}

FieldKeys(fs) == {fs[i].k : i \in 1..Len(fs)}

PayloadMap(x) == {x.v[i] : i \in 1..Len(x.v)}

MessageKeys == {K("message"), K("error")}

\* C10: every failure response a handler generates itself is a JSON
\* object with ok false and a human-readable message field, and no
\* response a handler generates holds the configured API key.
C10_FailureBodies ==
  pc = "done" /\ resp.local =>
    /\ (resp.statusCode >= 400 =>
          /\ IsObjText(resp.body)
          /\ HasKey(Props(resp.body), K("ok"))
          /\ GetKey(Props(resp.body), K("ok")) = JBool(FALSE)
          /\ \E k \in MessageKeys :
                /\ HasKey(Props(resp.body), k)
                /\ GetKey(Props(resp.body), k).t = "str")
    /\ ~Includes(resp.body, Secret)
=============================================================================
